---- MODULE Spec2Model ----
(***************************************************************************)
(* The news-site publishing pipeline of redeemlink: the three drivers      *)
(* (deploy.py main, the GUI Worker of main.py, LocalAstroDevServer.run),   *)
(* the stages of AstroDeployer.run / HugoDeployer.run, the renderers, and  *)
(* the two publishers (git force-push, Contents API upload).               *)
(*                                                                         *)
(* Text is a sequence of one-character strings; a directory or a git tree  *)
(* is a function from file names to contents whose DOMAIN is the set of    *)
(* files that exist.  External tools (feedparser, npm, hugo, git, the      *)
(* GitHub API) are the environment: each call either fails or succeeds,    *)
(* and a build's output is any tree.  Timestamps (datetime.now(),          *)
(* published_parsed) are left out of the rendered content.                 *)
(***************************************************************************)
EXTENDS Integers, Sequences, FiniteSets, TLC

VARIABLES
    driver,          \* who started the current run: "cli", "gui", "dev"
    stage,           \* Idle, Fetching, Rendering, Building, Publishing, Serving, Done, Failed
    pc,              \* position inside run() / deploy_to_github() / the driver
    log,             \* what the observer (status_callback) received in this run
    err,             \* the exception in flight or last raised, "" when none
    exitCode,        \* deploy.py: sys.exit status of the last headless run, -1 before
    btnEnabled,      \* main.py: publish_btn.isEnabled()
    finishedCount,   \* main.py: Worker.finished emissions of the current run
    news_items,      \* run(): the fetched entries
    contentPosts,    \* content/posts
    astroBlog,       \* astro-site/src/content/blog
    devPosts,        \* astro-site/src/content/posts
    hugoPosts,       \* hugo-site/content/posts
    dist,            \* astro-site/dist : [exists, files]
    public,          \* hugo-site/public : [exists, files]
    domain,          \* DOMAIN of the environment
    ghPages,         \* the remote gh-pages branch : [exists, files]
    mainTree,        \* the tree of the remote default branch
    scratch,         \* temp_gh_pages_deploy working tree : [exists, files]
    head,            \* tree of the HEAD commit of the scratch clone
    cname_content,   \* deploy_to_github local : [some, val]
    sitemap_content, \* deploy_to_github local : [some, val]
    todo,            \* Strategy B: uploadable_files not yet visited
    apiLog,          \* Strategy B: the Contents API calls made in this run
    started,         \* history: stages whose work has begun, in order
    completed,       \* history: stages whose work returned normally, in order
    pushes,          \* history: git pushes attempted in this run
    envFailed,       \* history: an external command or request failed in this run
    ghBefore,        \* history: the branch when this run's publisher began
    lastOk,          \* history: the previous run was a successful Strategy A publish
    repeat,          \* history: this run's build output equals that of the previous run
    postsBefore,     \* history: content/posts when this run began
    bozo,            \* history: feedparser flagged this run's feed (result.bozo)
    remoteOps        \* history: operations on the remote made by this run's publisher

vars == <<driver, stage, pc, log, err, exitCode, btnEnabled, finishedCount,
          news_items, contentPosts, astroBlog, devPosts, hugoPosts, dist, public,
          domain, ghPages, mainTree, scratch, head, cname_content, sitemap_content,
          todo, apiLog, started, completed, pushes, envFailed, ghBefore, lastOk, repeat,
          postsBefore, bozo, remoteOps>>

\* ---------------------------------------------------------------- bounds
MaxItems == 2

\* ------------------------------------------------------ program constants
FetchLimit == 30
SlugLen == 60
DescLen == 155

\* ------------------------------------------------------------ text helpers
Min(a, b) == IF a < b THEN a ELSE b

Take(s, n) == SubSeq(s, 1, Min(n, Len(s)))

IsSpace(c) == c \in {" ", "\t", "\n", "\r"}

\* the text from its first character that is not whitespace
LStrip(s) ==
    IF \A i \in 1..Len(s) : IsSpace(s[i]) THEN <<>>
    ELSE SubSeq(s, CHOOSE i \in 1..Len(s) :
                      ~IsSpace(s[i]) /\ \A k \in 1..(i - 1) : IsSpace(s[k]),
                Len(s))

\* the text up to its last character that is not whitespace
RStrip(s) ==
    IF \A i \in 1..Len(s) : IsSpace(s[i]) THEN <<>>
    ELSE SubSeq(s, 1, CHOOSE i \in 1..Len(s) :
                         ~IsSpace(s[i]) /\ \A k \in (i + 1)..Len(s) : IsSpace(s[k]))

Strip(s) == RStrip(LStrip(s))

UpperCase == <<"A", "B", "C", "D", "E", "F", "G", "H", "I", "J", "K", "L", "M",
               "N", "O", "P", "Q", "R", "S", "T", "U", "V", "W", "X", "Y", "Z">>
LowerCase == <<"a", "b", "c", "d", "e", "f", "g", "h", "i", "j", "k", "l", "m",
               "n", "o", "p", "q", "r", "s", "t", "u", "v", "w", "x", "y", "z">>
Digits == {"0", "1", "2", "3", "4", "5", "6", "7", "8", "9"}

\* a character outside ASCII is named by its code point: "U+0130" is the
\* capital I with dot above, a letter; "U+0307" is the combining dot above,
\* a mark and not alphanumeric
IsAlnum(c) ==
    \/ c \in Digits
    \/ \E i \in 1..26 : c = UpperCase[i] \/ c = LowerCase[i]
    \/ c = "U+0130"

LowerChar(c) ==
    IF \E i \in 1..26 : c = UpperCase[i]
    THEN LowerCase[CHOOSE i \in 1..26 : c = UpperCase[i]]
    ELSE c

\* str.lower() of one character: a text, since the lower case of U+0130 is
\* the two characters "i", U+0307
LowerText(c) == IF c = "U+0130" THEN <<"i", "U+0307">> ELSE <<LowerChar(c)>>

\* character by character; a long text is lowered half by half
RECURSIVE Lower(_)
Lower(s) ==
    IF s = <<>> THEN <<>>
    ELSE IF Len(s) = 1 THEN LowerText(s[1])
    ELSE Lower(SubSeq(s, 1, Len(s) \div 2)) \o Lower(SubSeq(s, Len(s) \div 2 + 1, Len(s)))

\* str.replace(old, new) for a one-character old and a text new
RECURSIVE Replace(_, _, _)
Replace(s, old, new) ==
    IF s = <<>> THEN <<>>
    ELSE IF Len(s) = 1 THEN (IF s[1] = old THEN new ELSE s)
    ELSE Replace(SubSeq(s, 1, Len(s) \div 2), old, new)
         \o Replace(SubSeq(s, Len(s) \div 2 + 1, Len(s)), old, new)

\* "".join(c for c in title if c.isalnum() or c in " - ")
RECURSIVE KeepSlugChars(_)
KeepSlugChars(s) ==
    IF s = <<>> THEN <<>>
    ELSE IF Len(s) = 1
         THEN (IF IsAlnum(s[1]) \/ s[1] \in {" ", "-"} THEN s ELSE <<>>)
    ELSE KeepSlugChars(SubSeq(s, 1, Len(s) \div 2))
         \o KeepSlugChars(SubSeq(s, Len(s) \div 2 + 1, Len(s)))

Title(item) == Replace(item.title, "\"", <<>>)

Slug(title) == Replace(Lower(Strip(Take(KeepSlugChars(title), SlugLen))), " ", <<"-">>)

FileName(slug) == slug \o <<".md">>

\* re.sub('<.*?>', '', raw_html): from each '<' to the next '>' when no newline
\* lies between them ('.' does not match a newline)
FirstGt(s) == IF \E j \in 2..Len(s) : s[j] = ">"
              THEN CHOOSE j \in 2..Len(s) : s[j] = ">" /\ \A k \in 2..(j - 1) : s[k] # ">"
              ELSE 0

\* the pattern matches at position i
IsTagAt(s, i) ==
    LET t == SubSeq(s, i, Len(s))
    IN s[i] = "<" /\ FirstGt(t) > 0 /\ \A k \in 2..(FirstGt(t) - 1) : t[k] # "\n"

\* the text up to the leftmost match, then the rest after that match
RECURSIVE clean_html(_)
clean_html(s) ==
    IF \A i \in 1..Len(s) : ~IsTagAt(s, i) THEN s
    ELSE LET i == CHOOSE j \in 1..Len(s) :
                     IsTagAt(s, j) /\ \A k \in 1..(j - 1) : ~IsTagAt(s, k)
             t == SubSeq(s, i, Len(s))
         IN SubSeq(s, 1, i - 1) \o clean_html(SubSeq(t, FirstGt(t) + 1, Len(t)))

Summary(item) == IF item.hasSummary THEN item.summary ELSE <<>>

\* a description cut to its length before the surrounding whitespace is removed
DescriptionSliceThenStrip(item) ==
    Strip(Take(Replace(clean_html(Summary(item)), "\"", <<"\\", "\"">>), DescLen))
    \o <<".", ".", ".">>

Description(item) ==
    Take(Strip(Replace(clean_html(Summary(item)), "\"", <<"\\", "\"">>)), DescLen)
    \o <<".", ".", ".">>

\* the rendered files: <<format, title, description, link, body summary>>
AstroContent(item) == <<"astro", Title(item), Description(item), item.link, Summary(item)>>
DevContent(item) == <<"astro-dev", Title(item), <<>>, item.link, item.summary>>
HugoContent(item) == <<"hugo", Title(item), <<>>, item.link, Summary(item)>>

\* ------------------------------------------------------------ directories
EmptyDir == <<>>

\* a write that leaves an existing file as it is
WriteTextKeepsExisting(dir, name, content) ==
    [n \in (DOMAIN dir) \cup {name} |-> IF n \in DOMAIN dir THEN dir[n] ELSE content]

\* Path.write_text: create or overwrite
WriteText(dir, name, content) ==
    [n \in (DOMAIN dir) \cup {name} |-> IF n = name THEN content ELSE dir[n]]

\* a clearing step that removes nothing
ClearedKeepsFiles(dir) == dir

\* shutil.rmtree + mkdir
Cleared(dir) == EmptyDir

\* shutil.copytree(src, dst, dirs_exist_ok=True)
CopyTree(src, dst) ==
    [n \in (DOMAIN src) \cup (DOMAIN dst) |-> IF n \in DOMAIN src THEN src[n] ELSE dst[n]]

RECURSIVE AstroWriteAll(_, _)
AstroWriteAll(dir, items) ==
    IF items = <<>> THEN dir
    ELSE AstroWriteAll(
            WriteText(dir, FileName(Slug(Title(Head(items)))), AstroContent(Head(items))),
            Tail(items))

RECURSIVE HugoWriteAll(_, _)
HugoWriteAll(dir, items) ==
    IF items = <<>> THEN dir
    ELSE HugoWriteAll(
            IF FileName(Slug(Title(Head(items)))) \in DOMAIN dir
            THEN dir
            ELSE WriteText(dir, FileName(Slug(Title(Head(items)))), HugoContent(Head(items))),
            Tail(items))

\* LocalAstroDevServer reads item.summary without a default: the loop stops at
\* the first entry that has none
DevPrefix(items) ==
    IF \E i \in 1..Len(items) : ~items[i].hasSummary
    THEN SubSeq(items, 1, (CHOOSE i \in 1..Len(items) :
                              ~items[i].hasSummary
                              /\ \A k \in 1..(i - 1) : items[k].hasSummary) - 1)
    ELSE items

RECURSIVE DevWriteAll(_, _)
DevWriteAll(dir, items) ==
    IF items = <<>> THEN dir
    ELSE DevWriteAll(
            WriteText(dir, FileName(Slug(Title(Head(items)))), DevContent(Head(items))),
            Tail(items))

\* ------------------------------------------------------------------ values
None == [some |-> FALSE, val |-> <<>>]
Some(v) == [some |-> TRUE, val |-> v]

\* Python truthiness of an Optional[str]: None and '' are both false
Truthy(opt) == opt.some /\ opt.val # <<>>

Missing == [exists |-> FALSE, files |-> EmptyDir]
Dir(files) == [exists |-> TRUE, files |-> files]

NoBranch == [exists |-> FALSE, files |-> EmptyDir, atMain |-> FALSE]
Branch(files, atMain) == [exists |-> TRUE, files |-> files, atMain |-> atMain]

NoErr == [msg |-> "", stdout |-> ""]
PyError(msg) == [msg |-> msg, stdout |-> ""]

\* an exception text that leaves the command's stdout out
CommandErrorWithoutStdout(error_message, stdout) == [msg |-> error_message, stdout |-> ""]

\* AstroDeployer._run_command: the exception text carries the command's stdout
AstroCommandError(error_message, stdout) == [msg |-> error_message, stdout |-> stdout]

\* HugoDeployer._run_command: the exception text is the error message alone
HugoCommandError(error_message, stdout) == [msg |-> error_message, stdout |-> ""]

NothingToCommitText == "nothing to commit, working tree clean"

\* "nothing to commit, working tree clean" in str(e)
IsNothingToCommit(e) == e.stdout = NothingToCommitText

Status(text) == <<text, NoErr>>
ErrorLine(e) == <<"Error:", e>>

\* ------------------------------------------------ Strategy A (git) helpers
\* the snapshot: read_text of the file when it exists in the clone
Snapshot(files, name) == IF name \in DOMAIN files THEN Some(files[name]) ELSE None

\* a cleaning loop that removes nothing
CleanScratchKeepsFiles(files) == files

\* every entry of the scratch directory except .git is removed
CleanScratch(files) == EmptyDir

\* every item of astro-site/dist is copied over the scratch directory
CopyBuild(distFiles, scratchFiles) == CopyTree(distFiles, scratchFiles)

RestoreCname(files, cname, dom) ==
    IF Truthy(cname) THEN WriteText(files, "CNAME", cname.val)
    ELSE IF dom # <<>> THEN WriteText(files, "CNAME", Strip(dom))
    ELSE files

RestoreSitemap(files, sitemap) ==
    IF Truthy(sitemap) THEN WriteText(files, "sitemap.xml", sitemap.val) ELSE files

Restore(files, cname, sitemap, dom) ==
    RestoreSitemap(RestoreCname(files, cname, dom), sitemap)

RestoreLog(cname, sitemap, dom) ==
    (IF Truthy(cname) THEN <<Status("Restored CNAME file.")>>
     ELSE IF dom # <<>> THEN <<Status("Created CNAME file with domain")>>
     ELSE <<>>)
    \o (IF Truthy(sitemap) THEN <<Status("Restored sitemap.xml file.")>> ELSE <<>>)

SnapshotLog(files) ==
    (IF "CNAME" \in DOMAIN files THEN <<Status("Preserving existing CNAME file.")>> ELSE <<>>)
    \o (IF "sitemap.xml" \in DOMAIN files
        THEN <<Status("Preserving existing sitemap.xml file.")>> ELSE <<>>)

\* ---------------------------------------- Strategy B (Contents API) helpers
\* the content identifier the API reports for a blob
Sha(content) == <<"sha">> \o content

\* GET contents: 200 with the sha, 404, or a failure (exception, other status)
LookupResponses(branchFiles, path) ==
    (IF path \in DOMAIN branchFiles THEN {"200"} ELSE {"404"}) \cup {"failed"}

\* sha = None; if status_code == 200: sha = json().get("sha")
LookupSha(resp, branchFiles, path) ==
    IF resp = "200" THEN Some(Sha(branchFiles[path])) ELSE None

\* a request body that never carries the sha
PutDataWithoutSha(path, content, sha) == [path |-> path, content |-> content, sha |-> None]

\* data = {...}; if sha: data["sha"] = sha
PutData(path, content, sha) ==
    [path |-> path, content |-> content, sha |-> IF Truthy(sha) THEN sha ELSE None]

\* the Contents API accepts an update only with the blob's current sha and a
\* creation only without one
PutAccepted(branchFiles, data) ==
    IF data.path \in DOMAIN branchFiles
    THEN data.sha.some /\ data.sha.val = Sha(branchFiles[data.path])
    ELSE ~data.sha.some

\* the paths the upload loop visits: every regular file under public
Uploadable(publicFiles) == DOMAIN publicFiles

\* ------------------------------------------------------------- the stages
StageStatus(d, s) ==
    CASE s = "Fetching" -> Status("Fetching Google News...")
      [] s = "Rendering" ->
            (CASE d = "cli" -> Status("Generating posts for Astro...")
               [] d = "gui" -> Status("Generating Hugo posts...")
               [] OTHER -> Status("Generating and copying posts for Astro..."))
      [] s = "Building" ->
            (IF d = "cli" THEN Status("Building Astro site...")
             ELSE Status("Building Hugo site..."))
      [] s = "Publishing" -> Status("Deploying to GitHub Pages...")
      [] OTHER -> Status("DONE! Google News live on your domain!")

\* run() with the build called before the render
NextStageBuildFirst(d, s) ==
    CASE s = "Fetching" -> "Building"
      [] s = "Building" -> "Rendering"
      [] s = "Rendering" -> "Publishing"
      [] OTHER -> "Done"

\* the statement that follows a stage's call in run()
NextStage(d, s) ==
    CASE s = "Fetching" -> "Rendering"
      [] s = "Rendering" -> (IF d = "dev" THEN "Serving" ELSE "Building")
      [] s = "Building" -> "Publishing"
      [] OTHER -> "Done"

\* start_dev_server and the end of LocalAstroDevServer.run emit no stage line
HasStatus(d, s) == ~(d = "dev" /\ s \in {"Serving", "Done"})

\* ------------------------------------------------------------------ inputs
Item(title, link, summary, hasSummary) ==
    [title |-> title, link |-> link, summary |-> summary, hasSummary |-> hasSummary]

\* "AI!" twice with different links, "a i" and "A-I " (one slug from two titles),
\* and a quoted title on an entry without a summary
Items ==
    { Item(<<"A", "I", "!">>, <<"1">>, <<"<", "b", ">", "s">>, TRUE),
      Item(<<"A", "I", "!">>, <<"2">>, <<"t">>, TRUE),
      Item(<<"a", " ", "i">>, <<"3">>, <<"u">>, TRUE),
      Item(<<"A", "-", "I", " ">>, <<"4">>, <<"\"", "v">>, TRUE),
      Item(<<"\"", "b", "\"">>, <<"5">>, <<>>, FALSE) }

SeqsUpTo(S, n) == UNION {[1..k -> S] : k \in 0..n}

AllFeeds == SeqsUpTo(Items, MaxItems)
OneFeed == {<<Item(<<"A", "I", "!">>, <<"1">>, <<"<", "b", ">", "s">>, TRUE)>>}

\* entries for the text conversions: titles and summaries around the two
\* length limits, with whitespace, quotes, tags and a letter outside ASCII
Rep(c, n) == [i \in 1..n |-> c]

TextItems ==
    { Item(Rep("a", SlugLen + 1), <<"1">>, Rep("x", DescLen + 1), TRUE),
      Item(<<"U+0130", "s", "t">>, <<"2">>, Rep("x", DescLen), TRUE),
      Item(Rep("U+0130", SlugLen), <<"3">>, Rep("x", DescLen - 1) \o <<" ", "y">>, TRUE),
      Item(<<" ", "A", " ", "b", "!", " ">>, <<"4">>, <<" ", "x">>, TRUE),
      Item(Rep("a", SlugLen - 1) \o <<" ", "b">>, <<"5">>,
           Rep("x", DescLen - 1) \o Rep(" ", 5), TRUE),
      Item(<<"a", "-", "1">>, <<"6">>, <<"\"", "q", "\"">>, TRUE),
      Item(<<"A", "\t", "B">>, <<"7">>,
           <<"<", "b", ">">> \o Rep("x", DescLen + 1) \o <<"<", "/", "b", ">">>, TRUE),
      Item(<<"N", "e", "w", "s">>, <<"8">>, Rep("x", DescLen - 2) \o <<"\"", "y", "z">>, TRUE),
      Item(<<"N", "o", "n", "e">>, <<"9">>, <<>>, FALSE),
      Item(<<"2", "0", "2", "5">>, <<"0">>, <<"<", "\n", ">", "x">>, TRUE) }

TextFeeds == {<<it>> : it \in TextItems}

Paths == {"CNAME", "sitemap.xml", "index.html"}

Trees(paths, contents) == UNION {[S -> contents] : S \in SUBSET paths}

\* build outputs: any set of the paths, or no output directory at all
AllOuts == {Dir(t) : t \in Trees(Paths, {<<"b">>})} \cup {Missing}
FewOuts == {Dir([p \in {"index.html"} |-> <<"b">>]), Missing}

\* what the branch holds before the first run
AllBranches ==
    {Branch(t, FALSE) : t \in {u \in Trees(Paths, {<<>>, <<"a">>}) :
                                  "index.html" \in DOMAIN u => u["index.html"] # <<>>}}
    \cup {NoBranch}
FewBranches == {NoBranch, Branch([p \in {"index.html", "CNAME"} |-> <<"a">>], FALSE)}

\* DOMAIN as set in .env, or with the newline of a pasted secret
Domains == {<<"d">>, <<"d", "\n">>}

StalePost == <<"hugo", <<"o">>, <<>>, <<"0">>, <<"o">>>>
AllPostDirs ==
    { EmptyDir,
      [n \in {<<"o", "l", "d", ".md">>} |-> StalePost],
      [n \in {<<"a", "i", ".md">>} |-> StalePost] }

\* ------------------------------------------------------------------- frames
renderVars == <<contentPosts, astroBlog, devPosts, hugoPosts>>
buildVars == <<dist, public>>
configVars == <<domain, mainTree>>
gitVars == <<scratch, head, cname_content, sitemap_content>>
apiVars == <<todo, apiLog>>
guiVars == <<btnEnabled, finishedCount>>
runHistory == <<started, completed, pushes, envFailed, ghBefore, postsBefore, bozo, remoteOps>>

\* ------------------------------------------------------------------- Init
InitWith(postDirs, sideDirs, branches, domains) ==
    /\ driver = "none" /\ stage = "Idle" /\ pc = "idle"
    /\ log = <<>> /\ err = NoErr /\ exitCode = -1
    /\ btnEnabled = TRUE /\ finishedCount = 0
    /\ news_items = <<>>
    /\ contentPosts \in postDirs
    /\ astroBlog \in sideDirs /\ devPosts \in sideDirs /\ hugoPosts = EmptyDir
    /\ dist = Missing /\ public = Missing
    /\ domain \in domains
    /\ ghPages \in branches
    /\ mainTree = [p \in {"index.html"} |-> <<"m">>]
    /\ scratch = Missing /\ head = EmptyDir
    /\ cname_content = None /\ sitemap_content = None
    /\ todo = {} /\ apiLog = {}
    /\ started = <<>> /\ completed = <<>> /\ pushes = 0 /\ envFailed = FALSE
    /\ ghBefore = NoBranch /\ lastOk = FALSE /\ repeat = FALSE
    /\ postsBefore = EmptyDir /\ bozo = FALSE /\ remoteOps = {}

\* ------------------------------------------------------- starting a run
BeginRun(d, firstLines) ==
    /\ driver' = d /\ stage' = "Fetching" /\ pc' = "status"
    /\ log' = firstLines /\ err' = NoErr
    /\ news_items' = <<>>
    /\ todo' = {} /\ apiLog' = {}
    /\ started' = <<>> /\ completed' = <<>> /\ pushes' = 0 /\ envFailed' = FALSE
    /\ head' = EmptyDir /\ cname_content' = None /\ sitemap_content' = None
    /\ exitCode' = -1
    /\ ghBefore' = ghPages /\ repeat' = FALSE
    /\ postsBefore' = contentPosts /\ bozo' = FALSE /\ remoteOps' = {}

\* deploy.py main: AstroDeployer() raises ValueError on a missing setting and
\* main exits 1; otherwise deployer.run() begins
main ==
    /\ pc = "idle"
    /\ \E configured \in BOOLEAN :
          IF configured
          THEN /\ BeginRun("cli", <<>>)
               /\ UNCHANGED <<lastOk, finishedCount, btnEnabled>>
          ELSE /\ exitCode' = 1 /\ lastOk' = FALSE
               /\ UNCHANGED <<driver, stage, pc, log, err, news_items, todo, apiLog,
                              runHistory, repeat, guiVars, head, cname_content,
                              sitemap_content>>
    /\ UNCHANGED <<renderVars, buildVars, configVars, ghPages, scratch>>

\* a start_worker that starts the Worker and leaves the button as it is
StartWorkerLeavesButton ==
    /\ btnEnabled /\ (pc = "idle" \/ driver = "gui")
    /\ \E configured \in BOOLEAN :
          IF configured
          THEN /\ BeginRun("gui", <<>>)
               /\ finishedCount' = 0
               /\ UNCHANGED <<lastOk, btnEnabled>>
          ELSE UNCHANGED <<driver, stage, pc, log, err, news_items, todo, apiLog,
                           runHistory, repeat, guiVars, exitCode, lastOk, head,
                           cname_content, sitemap_content>>
    /\ UNCHANGED <<renderVars, buildVars, configVars, ghPages, scratch>>

\* main.py start_worker, the slot of publish_btn.clicked: a click is delivered
\* only while the button is enabled, whether or not a Worker is running.
\* HugoDeployer() is tried first; on ValueError a message box is shown and
\* nothing starts; otherwise the button is disabled and a new Worker thread
\* is started, which runs deployer.run() in the steps that follow
start_worker ==
    /\ btnEnabled /\ (pc = "idle" \/ driver = "gui")
    /\ \E configured \in BOOLEAN :
          IF configured
          THEN /\ BeginRun("gui", <<>>)
               /\ btnEnabled' = FALSE /\ finishedCount' = 0
               /\ UNCHANGED lastOk
          ELSE UNCHANGED <<driver, stage, pc, log, err, news_items, todo, apiLog,
                           runHistory, repeat, guiVars, exitCode, lastOk, head,
                           cname_content, sitemap_content>>
    /\ UNCHANGED <<renderVars, buildVars, configVars, ghPages, scratch>>

\* LocalAstroDevServer.run
dev_run ==
    /\ pc = "idle"
    /\ BeginRun("dev", <<Status("Preparing Astro local development environment...")>>)
    /\ UNCHANGED <<lastOk, guiVars, renderVars, buildVars, configVars, ghPages, scratch>>

\* ------------------------------------------------------------ run(): steps
\* self.status_callback(<stage line>) in run()
EmitStatus ==
    /\ pc = "status"
    /\ log' = Append(log, StageStatus(driver, stage))
    /\ pc' = IF stage = "Done" THEN "returned" ELSE "work"
    /\ UNCHANGED <<driver, stage, err, exitCode, guiVars, news_items, renderVars,
                   buildVars, configVars, ghPages, gitVars, apiVars, runHistory,
                   lastOk, repeat>>

\* a stage's call returned: run() goes on to the next statement
Advance(s) ==
    /\ stage' = NextStage(driver, s)
    /\ pc' = IF HasStatus(driver, NextStage(driver, s)) THEN "status"
             ELSE IF NextStage(driver, s) = "Done" THEN "returned" ELSE "work"
    /\ completed' = Append(completed, s)
    /\ err' = NoErr

\* a stage's call raised: control is in run()'s except clause
Raise(e) ==
    /\ pc' = "except"
    /\ err' = e
    /\ UNCHANGED <<stage, completed>>

\* an except clause that reports the error and does not re-raise it
ExceptWithoutRaise ==
    /\ pc = "except"
    /\ log' = Append(log, <<"Error:", err>>)
    /\ stage' = "Failed"
    /\ pc' = "returned"
    /\ UNCHANGED <<driver, err, exitCode, guiVars, news_items, renderVars, buildVars,
                   configVars, ghPages, gitVars, apiVars, runHistory, lastOk, repeat>>

\* except Exception as e: status_callback(f"Error: {e}"); raise
Except ==
    /\ pc = "except"
    /\ log' = Append(log, ErrorLine(err))
    /\ stage' = "Failed"
    /\ pc' = "raised"
    /\ UNCHANGED <<driver, err, exitCode, guiVars, news_items, renderVars, buildVars,
                   configVars, ghPages, gitVars, apiVars, runHistory, lastOk, repeat>>

\* ------------------------------------------------------------------ Fetching
\* fetch_google_news: feed.entries[:30].  feedparser.parse either raises or
\* returns a result; a retrieval that failed or a response that is not a
\* well-formed feed is reported in the result (bozo), with no entries or with
\* the entries that could be recovered, and the code does not read that flag
Fetch(feeds, bozos) ==
    /\ pc = "work" /\ stage = "Fetching"
    /\ started' = Append(started, "Fetching")
    /\ \/ \E b \in bozos :
          \E feed \in (IF b THEN feeds \cup {<<>>} ELSE feeds) :
             /\ news_items' = Take(feed, FetchLimit)
             /\ bozo' = b
             /\ Advance("Fetching")
             /\ UNCHANGED envFailed
       \/ /\ Raise(PyError("feedparser.parse failed"))
          /\ envFailed' = TRUE
          /\ UNCHANGED <<news_items, bozo>>
    /\ UNCHANGED <<driver, log, exitCode, guiVars, renderVars, buildVars, configVars,
                   ghPages, gitVars, apiVars, pushes, ghBefore, lastOk, repeat, postsBefore,
                   remoteOps>>

\* ----------------------------------------------------------------- Rendering
CountLine == Status("Generated and copied N posts")

\* AstroDeployer.generate_posts_for_astro
generate_posts_for_astro ==
    /\ pc = "work" /\ stage = "Rendering" /\ driver = "cli"
    /\ started' = Append(started, "Rendering")
    /\ \/ /\ contentPosts' = AstroWriteAll(Cleared(contentPosts), news_items)
          /\ astroBlog' = CopyTree(contentPosts', Cleared(astroBlog))
          /\ log' = Append(log, CountLine)
          /\ Advance("Rendering")
          /\ UNCHANGED envFailed
       \/ /\ Raise(PyError("OSError"))
          /\ envFailed' = TRUE
          /\ UNCHANGED <<contentPosts, astroBlog, log>>
    /\ UNCHANGED <<driver, exitCode, guiVars, news_items, devPosts, hugoPosts, buildVars,
                   configVars, ghPages, gitVars, apiVars, pushes, ghBefore, lastOk, repeat, postsBefore,
                   bozo, remoteOps>>

\* HugoDeployer.generate_hugo_posts
generate_hugo_posts ==
    /\ pc = "work" /\ stage = "Rendering" /\ driver = "gui"
    /\ started' = Append(started, "Rendering")
    /\ \/ /\ Raise(PyError("OSError"))
          /\ envFailed' = TRUE
          /\ UNCHANGED contentPosts
       \/ /\ contentPosts' = HugoWriteAll(contentPosts, news_items)
          /\ Advance("Rendering")
          /\ UNCHANGED envFailed
    /\ UNCHANGED <<driver, log, exitCode, guiVars, news_items, astroBlog, devPosts,
                   hugoPosts, buildVars, configVars, ghPages, gitVars, apiVars, pushes,
                   ghBefore, lastOk, repeat, postsBefore,
                   bozo, remoteOps>>

\* LocalAstroDevServer.generate_posts_for_astro
dev_generate_posts_for_astro ==
    /\ pc = "work" /\ stage = "Rendering" /\ driver = "dev"
    /\ started' = Append(started, "Rendering")
    /\ contentPosts' = DevWriteAll(Cleared(contentPosts), DevPrefix(news_items))
    /\ IF DevPrefix(news_items) = news_items
       THEN /\ devPosts' = CopyTree(contentPosts', Cleared(devPosts))
            /\ log' = Append(log, CountLine)
            /\ Advance("Rendering")
       ELSE /\ Raise(PyError("AttributeError: summary"))
            /\ UNCHANGED <<devPosts, log>>
    /\ UNCHANGED <<driver, exitCode, guiVars, news_items, astroBlog, hugoPosts, buildVars,
                   configVars, ghPages, gitVars, apiVars, pushes, envFailed, ghBefore,
                   lastOk, repeat, postsBefore,
                   bozo, remoteOps>>

\* LocalAstroDevServer.start_dev_server: npm run dev until it exits
start_dev_server ==
    /\ pc = "work" /\ stage = "Serving"
    /\ started' = Append(started, "Serving")
    /\ log' = log \o <<Status("Starting Astro development server..."),
                       Status("Astro dev server started.")>>
    /\ Advance("Serving")
    /\ UNCHANGED <<driver, exitCode, guiVars, news_items, renderVars, buildVars,
                   configVars, ghPages, gitVars, apiVars, pushes, envFailed, ghBefore,
                   lastOk, repeat, postsBefore,
                   bozo, remoteOps>>

\* ------------------------------------------------------------------ Building
\* AstroDeployer.build_astro_site: npm install, npm run build
build_astro_site(outs) ==
    /\ pc = "work" /\ stage = "Building" /\ driver = "cli"
    /\ started' = Append(started, "Building")
    /\ \/ /\ log' = log \o <<Status("Building Astro site..."),
                             Status("Installing Astro dependencies...")>>
          /\ Raise(AstroCommandError("Failed to install Astro dependencies.", "npm"))
          /\ envFailed' = TRUE
          /\ UNCHANGED <<dist, repeat>>
       \/ /\ log' = log \o <<Status("Building Astro site..."),
                             Status("Installing Astro dependencies..."),
                             Status("Running Astro build...")>>
          /\ Raise(AstroCommandError("Failed to build Astro site.", "npm"))
          /\ envFailed' = TRUE
          /\ UNCHANGED <<dist, repeat>>
       \/ \E out \in outs :
             /\ dist' = out
             /\ repeat' = (lastOk /\ out = dist)
             /\ log' = log \o <<Status("Building Astro site..."),
                                Status("Installing Astro dependencies..."),
                                Status("Running Astro build..."),
                                Status("Astro site built successfully!")>>
             /\ Advance("Building")
             /\ UNCHANGED envFailed
    /\ UNCHANGED <<driver, exitCode, guiVars, news_items, renderVars, public, configVars,
                   ghPages, gitVars, apiVars, pushes, ghBefore, lastOk, postsBefore,
                   bozo, remoteOps>>

\* HugoDeployer.build_hugo_site: site, theme and config are prepared (hugo-site
\* itself is not modelled), content/posts replaces hugo-site/content/posts, hugo runs
build_hugo_site(outs) ==
    /\ pc = "work" /\ stage = "Building" /\ driver = "gui"
    /\ started' = Append(started, "Building")
    /\ \/ /\ log' = Append(log, Status("Initializing/Updating Hugo site..."))
          /\ Raise(HugoCommandError("Failed to update Ananke theme.", "git"))
          /\ envFailed' = TRUE
          /\ UNCHANGED <<public, hugoPosts>>
       \/ /\ log' = log \o <<Status("Initializing/Updating Hugo site..."),
                             Status("Building Hugo site...")>>
          /\ hugoPosts' = CopyTree(contentPosts, Cleared(hugoPosts))
          /\ Raise(HugoCommandError("Failed to build Hugo site.", "hugo"))
          /\ envFailed' = TRUE
          /\ UNCHANGED public
       \/ \E out \in outs :
             /\ public' = out
             /\ hugoPosts' = CopyTree(contentPosts, Cleared(hugoPosts))
             /\ log' = log \o <<Status("Initializing/Updating Hugo site..."),
                                Status("Building Hugo site..."),
                                Status("Hugo site built successfully!")>>
             /\ Advance("Building")
             /\ UNCHANGED envFailed
    /\ UNCHANGED <<driver, exitCode, guiVars, news_items, contentPosts, astroBlog,
                   devPosts, dist, configVars, ghPages, gitVars, apiVars, pushes,
                   ghBefore, lastOk, repeat, postsBefore,
                   bozo, remoteOps>>

\* ------------------------------------------- Publishing, Strategy A (git)
pubFrameA == <<driver, exitCode, guiVars, news_items, renderVars, buildVars, configVars,
               apiVars, lastOk, repeat, postsBefore, bozo>>

\* AstroDeployer.deploy_to_github: the scratch directory is (re)created
deploy_setup ==
    /\ pc = "work" /\ stage = "Publishing" /\ driver = "cli"
    /\ started' = Append(started, "Publishing")
    /\ ghBefore' = ghPages
    /\ log' = Append(log, Status("Deploying to GitHub Pages using Git..."))
    /\ scratch' = Dir(EmptyDir)
    /\ cname_content' = None /\ sitemap_content' = None
    /\ pc' = "clone"
    /\ UNCHANGED <<stage, err, completed, pushes, envFailed, ghPages, head, remoteOps,
                   pubFrameA>>

\* git clone --branch gh-pages --single-branch, then the snapshot of the two
\* preserved files; any failure of the clone leads to the except branch
deploy_clone ==
    /\ pc = "clone"
    /\ \/ /\ ghPages.exists
          /\ scratch' = Dir(ghPages.files)
          /\ head' = ghPages.files
          /\ cname_content' = Snapshot(ghPages.files, "CNAME")
          /\ sitemap_content' = Snapshot(ghPages.files, "sitemap.xml")
          /\ log' = log \o <<Status("Attempting to clone 'gh-pages' branch..."),
                             Status("Cloned existing 'gh-pages' branch.")>>
                        \o SnapshotLog(ghPages.files)
          /\ pc' = "clean"
          /\ UNCHANGED envFailed
       \/ /\ scratch' = Dir(EmptyDir)
          /\ log' = log \o <<Status("Attempting to clone 'gh-pages' branch..."),
                             Status("'gh-pages' branch might not exist or another cloning error occurred"),
                             Status("Cloning 'main' branch and creating 'gh-pages'...")>>
          /\ envFailed' = (envFailed \/ ghPages.exists)
          /\ pc' = "fallback"
          /\ UNCHANGED <<head, cname_content, sitemap_content>>
    /\ remoteOps' = remoteOps \cup {"git clone --branch gh-pages"}
    /\ UNCHANGED <<stage, err, started, completed, pushes, ghBefore, ghPages, pubFrameA>>

\* the except branch: clone the default branch, git checkout -b gh-pages,
\* git push -u origin gh-pages.  The remote takes the push when the branch is
\* new or still at main's commit.
deploy_fallback ==
    /\ pc = "fallback"
    /\ \/ /\ \E msg \in {"Failed to clone 'main' branch.", "Failed to create gh-pages branch."} :
                Raise(AstroCommandError(msg, "git"))
          /\ scratch' = IF err' = AstroCommandError("Failed to clone 'main' branch.", "git")
                        THEN scratch ELSE Dir(mainTree)
          /\ envFailed' = TRUE
          /\ remoteOps' = remoteOps \cup {"git clone"}
          /\ UNCHANGED <<ghPages, head, pushes, log>>
       \/ /\ pushes' = pushes + 1
          /\ remoteOps' = remoteOps \cup {"git clone", "git push -u origin gh-pages"}
          /\ scratch' = Dir(mainTree)
          /\ head' = mainTree
          /\ \/ /\ Raise(AstroCommandError("Failed to push new gh-pages branch.", "git"))
                /\ envFailed' = TRUE
                /\ UNCHANGED <<ghPages, log>>
             \/ /\ ~ghPages.exists \/ ghPages.atMain
                /\ ghPages' = Branch(mainTree, TRUE)
                /\ log' = Append(log, Status("Created and pushed new 'gh-pages' branch."))
                /\ pc' = "clean"
                /\ UNCHANGED <<stage, err, completed, envFailed>>
    /\ UNCHANGED <<started, ghBefore, cname_content, sitemap_content, pubFrameA>>

\* the scratch directory is emptied (but .git), astro-site/dist is copied in,
\* the preserved files are written back
deploy_copy ==
    /\ pc = "clean"
    /\ IF ~dist.exists
       THEN /\ scratch' = Dir(CleanScratch(scratch.files))
            /\ log' = log \o <<Status("Cleaning temporary deployment directory (excluding .git)..."),
                               Status("Copying new build files from astro-site/dist...")>>
            /\ Raise(PyError("Astro distribution directory not found. Build may have failed."))
       ELSE /\ scratch' = Dir(Restore(CopyBuild(dist.files, CleanScratch(scratch.files)),
                                      cname_content, sitemap_content, domain))
            /\ log' = log \o <<Status("Cleaning temporary deployment directory (excluding .git)..."),
                               Status("Copying new build files from astro-site/dist...")>>
                          \o RestoreLog(cname_content, sitemap_content, domain)
            /\ pc' = "commit"
            /\ UNCHANGED <<stage, err, completed>>
    /\ UNCHANGED <<started, pushes, envFailed, ghBefore, ghPages, head, cname_content,
                   sitemap_content, remoteOps, pubFrameA>>

\* what git commit does on the staged tree: it fails with "nothing to commit,
\* working tree clean" on stdout when the tree is that of HEAD
CommitError(files, headFiles) ==
    IF files = headFiles
    THEN AstroCommandError("Failed to commit changes.", NothingToCommitText)
    ELSE AstroCommandError("Failed to commit changes.", "git")

\* git add ., git config (twice), git commit
deploy_commit ==
    /\ pc = "commit"
    /\ \/ /\ \E msg \in {"Failed to stage files for commit.", "Failed to set git user name.",
                         "Failed to set git user email."} :
                Raise(AstroCommandError(msg, "git"))
          /\ log' = Append(log, Status("Staging, committing, and pushing changes..."))
          /\ envFailed' = TRUE
          /\ UNCHANGED <<scratch, head>>
       \/ /\ scratch.files = head
          /\ IF IsNothingToCommit(CommitError(scratch.files, head))
             THEN /\ log' = log \o <<Status("Staging, committing, and pushing changes..."),
                                     Status("No changes detected in the build output. Skipping commit and push.")>>
                  /\ scratch' = Missing
                  /\ Advance("Publishing")
             ELSE /\ log' = Append(log, Status("Staging, committing, and pushing changes..."))
                  /\ Raise(CommitError(scratch.files, head))
                  /\ UNCHANGED scratch
          /\ UNCHANGED <<head, envFailed>>
       \/ /\ scratch.files # head
          /\ log' = Append(log, Status("Staging, committing, and pushing changes..."))
          /\ \/ /\ Raise(CommitError(scratch.files, head))
                /\ envFailed' = TRUE
                /\ UNCHANGED head
             \/ /\ head' = scratch.files
                /\ pc' = "push"
                /\ UNCHANGED <<stage, err, completed, envFailed>>
          /\ UNCHANGED scratch
    /\ UNCHANGED <<started, pushes, ghBefore, ghPages, cname_content, sitemap_content,
                   remoteOps, pubFrameA>>

\* git push --force origin gh-pages, then the scratch directory is removed
deploy_push ==
    /\ pc = "push"
    /\ pushes' = pushes + 1
    /\ remoteOps' = remoteOps \cup {"git push --force origin gh-pages"}
    /\ \/ /\ Raise(AstroCommandError("Failed to force push to gh-pages branch.", "git"))
          /\ envFailed' = TRUE
          /\ UNCHANGED <<ghPages, scratch, log>>
       \/ /\ ghPages' = Branch(head, FALSE)
          /\ log' = Append(log, Status("Successfully deployed to GitHub Pages!"))
          /\ scratch' = Missing
          /\ Advance("Publishing")
          /\ UNCHANGED envFailed
    /\ UNCHANGED <<started, ghBefore, head, cname_content, sitemap_content, pubFrameA>>

\* ---------------------------------- Publishing, Strategy B (Contents API)
pubFrameB == <<driver, exitCode, guiVars, news_items, renderVars, buildVars, configVars,
               gitVars, pushes, lastOk, repeat, postsBefore, bozo>>

ApiCall(method, path, sentSha, existed, resp, accepted) ==
    [method |-> method, path |-> path, sentSha |-> sentSha, existed |-> existed,
     resp |-> resp, accepted |-> accepted]

\* HugoDeployer.deploy_to_github up to the loop: list the branches, create
\* gh-pages from main when it is absent, require hugo-site/public, list its files
deploy_branches ==
    /\ pc = "work" /\ stage = "Publishing" /\ driver = "gui"
    /\ started' = Append(started, "Publishing")
    /\ ghBefore' = ghPages
    /\ \/ /\ Raise(PyError("HTTPError: branches"))
          /\ envFailed' = TRUE
          /\ remoteOps' = remoteOps \cup {"GET branches"}
          /\ UNCHANGED <<ghPages, log, todo>>
       \/ /\ ~ghPages.exists
          /\ Raise(PyError("HTTPError: git/refs"))
          /\ envFailed' = TRUE
          /\ remoteOps' = remoteOps \cup {"GET branches", "GET branches/main", "POST git/refs"}
          /\ UNCHANGED <<ghPages, log, todo>>
       \/ /\ ghPages' = IF ghPages.exists THEN ghPages ELSE Branch(mainTree, TRUE)
          /\ remoteOps' = remoteOps \cup
                (IF ghPages.exists THEN {"GET branches"}
                 ELSE {"GET branches", "GET branches/main", "POST git/refs"})
          /\ log' = IF ghPages.exists THEN log
                    ELSE Append(log, Status("Created gh-pages branch."))
          /\ IF public.exists
             THEN /\ todo' = Uploadable(public.files)
                  /\ pc' = "upload"
                  /\ UNCHANGED <<stage, err, completed>>
             ELSE /\ Raise(PyError("Hugo public directory not found. Build may have failed."))
                  /\ UNCHANGED todo
          /\ UNCHANGED envFailed
    /\ UNCHANGED <<apiLog, pubFrameB>>

\* one turn of the upload loop: GET the sha, PUT the content
deploy_upload ==
    /\ pc = "upload" /\ todo # {}
    /\ \E path \in todo :
       \E resp \in LookupResponses(ghPages.files, path) :
       \E delivered \in BOOLEAN :
          LET sha == LookupSha(resp, ghPages.files, path)
              data == PutData(path, public.files[path], sha)
              existed == path \in DOMAIN ghPages.files
              accepted == delivered /\ PutAccepted(ghPages.files, data)
          IN /\ apiLog' = apiLog \cup
                    { ApiCall("GET", path, FALSE, existed, resp, resp # "failed"),
                      ApiCall("PUT", path, data.sha.some, existed, resp, accepted) }
             /\ log' = Append(log, Status("Uploading"))
             /\ IF accepted
                THEN /\ ghPages' = Branch(WriteText(ghPages.files, path, data.content), FALSE)
                     /\ todo' = todo \ {path}
                     /\ envFailed' = (envFailed \/ resp = "failed")
                     /\ UNCHANGED <<pc, stage, err, completed>>
                ELSE /\ Raise(PyError("HTTPError: contents"))
                     /\ envFailed' = TRUE
                     /\ UNCHANGED <<ghPages, todo>>
    /\ remoteOps' = remoteOps \cup {"GET contents", "PUT contents"}
    /\ UNCHANGED <<started, ghBefore, pubFrameB>>

\* the loop is over
deploy_uploaded ==
    /\ pc = "upload" /\ todo = {}
    /\ log' = Append(log, Status("Successfully uploaded N site files to gh-pages branch!"))
    /\ Advance("Publishing")
    /\ UNCHANGED <<started, ghBefore, envFailed, ghPages, apiVars, remoteOps, pubFrameB>>

\* ------------------------------------------------------- the drivers' ends
\* the run is over: its locals and the observer's lines of this run are gone
EndRun ==
    /\ driver' = "none" /\ stage' = "Idle" /\ pc' = "idle"
    /\ log' = <<>> /\ err' = NoErr
    /\ news_items' = <<>>
    /\ todo' = {} /\ apiLog' = {}
    /\ started' = <<>> /\ completed' = <<>> /\ pushes' = 0 /\ envFailed' = FALSE
    /\ head' = EmptyDir /\ cname_content' = None /\ sitemap_content' = None
    /\ ghBefore' = NoBranch /\ repeat' = FALSE
    /\ postsBefore' = EmptyDir /\ bozo' = FALSE /\ remoteOps' = {}

\* deploy.py main: sys.exit(0) after run() returned, sys.exit(1) in the except
main_exit ==
    /\ driver = "cli" /\ pc \in {"returned", "raised"}
    /\ exitCode' = IF pc = "returned" THEN 0 ELSE 1
    /\ lastOk' = (pc = "returned")
    /\ EndRun
    /\ UNCHANGED <<guiVars, renderVars, buildVars, configVars, ghPages, scratch>>

\* Worker.run: except -> status.emit(f"Error: {e}"); finally -> finished.emit()
worker_run_end ==
    /\ driver = "gui" /\ pc \in {"returned", "raised"}
    /\ log' = IF pc = "raised" THEN Append(log, ErrorLine(err)) ELSE log
    /\ finishedCount' = finishedCount + 1
    /\ pc' = "finished"
    /\ UNCHANGED <<driver, stage, err, exitCode, btnEnabled, news_items, renderVars,
                   buildVars, configVars, ghPages, gitVars, apiVars, runHistory,
                   lastOk, repeat>>

\* GoogleNewsHugoBlaster.on_worker_finished
on_worker_finished ==
    /\ pc = "finished"
    /\ btnEnabled' = TRUE
    /\ lastOk' = FALSE
    /\ EndRun
    /\ UNCHANGED <<exitCode, finishedCount, renderVars, buildVars, configVars, ghPages,
                   scratch>>

\* the local dev server process ends
dev_exit ==
    /\ driver = "dev" /\ pc \in {"returned", "raised"}
    /\ lastOk' = FALSE
    /\ EndRun
    /\ UNCHANGED <<exitCode, guiVars, renderVars, buildVars, configVars, ghPages, scratch>>

\* ------------------------------------------------------------ specifications
RunSteps == EmitStatus \/ Except

CliSteps ==
    \/ main \/ main_exit
    \/ deploy_setup \/ deploy_clone \/ deploy_fallback \/ deploy_copy
    \/ deploy_commit \/ deploy_push

GuiSteps ==
    \/ start_worker \/ worker_run_end \/ on_worker_finished
    \/ deploy_branches \/ deploy_upload \/ deploy_uploaded

DevSteps == dev_run \/ start_dev_server \/ dev_exit

\* the pipeline and its three drivers
Init == InitWith({EmptyDir}, {EmptyDir}, FewBranches, Domains)
Next ==
    \/ RunSteps \/ CliSteps \/ GuiSteps \/ DevSteps
    \/ Fetch(OneFeed, BOOLEAN)
    \/ generate_posts_for_astro \/ generate_hugo_posts \/ dev_generate_posts_for_astro
    \/ build_astro_site(FewOuts) \/ build_hugo_site(FewOuts)
Spec == Init /\ [][Next]_vars

\* the two publishers, over every branch state and build output, on an empty feed
InitPublish == InitWith({EmptyDir}, {EmptyDir}, AllBranches, {<<"d", "\n">>})
NextPublish ==
    \/ RunSteps \/ CliSteps \/ GuiSteps
    \/ Fetch({<<>>}, {FALSE})
    \/ generate_posts_for_astro \/ generate_hugo_posts
    \/ build_astro_site(AllOuts) \/ build_hugo_site(AllOuts)
SpecPublish == InitPublish /\ [][NextPublish]_vars

\* the three renderers, over every feed and earlier directory content: a run
\* is followed to the end of its Rendering stage
InitRender == InitWith(AllPostDirs, AllPostDirs, {NoBranch}, {<<"d">>})
NextRender ==
    \/ main \/ start_worker \/ dev_run
    \/ RunSteps
    \/ Fetch(AllFeeds, {FALSE})
    \/ generate_posts_for_astro \/ generate_hugo_posts \/ dev_generate_posts_for_astro
SpecRender == InitRender /\ [][NextRender]_vars

\* the text conversions of the renderers (slug, description), over titles and
\* summaries around the length limits: a run is followed to the end of Rendering
InitText == InitWith({EmptyDir}, {EmptyDir}, {NoBranch}, {<<"d">>})
NextText ==
    \/ main \/ start_worker \/ dev_run
    \/ RunSteps
    \/ Fetch(TextFeeds, {FALSE})
    \/ generate_posts_for_astro \/ generate_hugo_posts \/ dev_generate_posts_for_astro
SpecText == InitText /\ [][NextText]_vars

\* the GUI driver alone, its Worker thread scheduled fairly
InitGui == InitWith({EmptyDir}, {EmptyDir}, FewBranches, {<<"d">>})
NextGui ==
    \/ RunSteps \/ GuiSteps
    \/ Fetch(OneFeed, BOOLEAN)
    \/ generate_hugo_posts
    \/ build_hugo_site(FewOuts)
SpecGui == InitGui /\ [][NextGui]_vars /\ WF_vars(NextGui)

\* ------------------------------------------------------------------ claims
Privileged == {"CNAME", "sitemap.xml"}

PublishedBy(d) == driver = d /\ stage = "Done"

\* C1: after a successful Strategy A publish, CNAME and sitemap.xml that were on
\* gh-pages before the run (with any content, the empty one included) are on
\* the branch with the same content.
C1_PrivilegedFilesSurviveGitPublish ==
    PublishedBy("cli") =>
        \A f \in Privileged :
            (ghBefore.exists /\ f \in DOMAIN ghBefore.files) =>
                (f \in DOMAIN ghPages.files /\ ghPages.files[f] = ghBefore.files[f])

\* C2 as stated: after a successful publish by either strategy every path on
\* the branch is a file of the build output or one of CNAME, sitemap.xml.
C2_BranchIsBuildPlusPreserved ==
    \A d \in {"cli", "gui"} :
        PublishedBy(d) =>
            \A p \in DOMAIN ghPages.files :
                p \in DOMAIN (IF d = "cli" THEN dist ELSE public).files \/ p \in Privileged

\* C2 as amended: Strategy A leaves exactly the build output plus CNAME and
\* sitemap.xml on the branch, every build file outside those two with the
\* build's content; Strategy B writes every build file to the branch and leaves
\* every other path of the earlier state (of main, when this run created the
\* branch) as it was.
C2_PublishedTree ==
    /\ PublishedBy("cli") =>
          /\ \A p \in DOMAIN ghPages.files : p \in DOMAIN dist.files \/ p \in Privileged
          /\ \A p \in DOMAIN dist.files :
                /\ p \in DOMAIN ghPages.files
                /\ p \notin Privileged => ghPages.files[p] = dist.files[p]
    /\ PublishedBy("gui") =>
          LET base == IF ghBefore.exists THEN ghBefore.files ELSE mainTree
          IN /\ \A p \in DOMAIN public.files :
                   p \in DOMAIN ghPages.files /\ ghPages.files[p] = public.files[p]
             /\ \A p \in DOMAIN base :
                   /\ p \in DOMAIN ghPages.files
                   /\ p \notin DOMAIN public.files => ghPages.files[p] = base[p]
             /\ DOMAIN ghPages.files = (DOMAIN base) \cup (DOMAIN public.files)

C2_Witness ==
    /\ PublishedBy("gui")
    /\ "index.html" \in DOMAIN ghBefore.files
    /\ "index.html" \notin DOMAIN public.files
    /\ "sitemap.xml" \in DOMAIN public.files
    /\ "index.html" \in DOMAIN ghPages.files

\* C3: Strategy B makes no lookup and no upsert for sitemap.xml, and the
\* sitemap on the branch is the same before and after the run.
C3_SitemapNeverTouchedByApi ==
    driver = "gui" =>
        /\ \A c \in apiLog : c.path # "sitemap.xml"
        /\ (ghBefore.exists /\ ghPages.exists) =>
              Snapshot(ghPages.files, "sitemap.xml") = Snapshot(ghBefore.files, "sitemap.xml")

Puts == {c \in apiLog : c.method = "PUT"}

\* C4 as stated: every upsert carries the sha exactly when the path exists on
\* gh-pages, also when the lookup failed.
C4_ShaWheneverPathExists == \A c \in Puts : c.sentSha <=> c.existed

\* C4 as amended: an upsert carries the sha exactly when the lookup answered
\* 200, which it does only for a path that exists; after a failed lookup of an
\* existing path the upsert goes out without a sha, the API refuses it and the
\* run fails; every upsert the API took carried the sha exactly when the path
\* existed.
C4_ShaFollowsLookup ==
    /\ \A c \in Puts :
          /\ c.sentSha <=> c.resp = "200"
          /\ c.sentSha => c.existed
          /\ ~c.existed => ~c.sentSha
          /\ (c.existed /\ c.resp = "failed") => (~c.sentSha /\ ~c.accepted)
          /\ c.accepted => (c.sentSha <=> c.existed)
    /\ (\E c \in Puts : ~c.accepted) => pc \in {"except", "raised", "finished"}

C4_Witness ==
    /\ pc = "raised" /\ driver = "gui"
    /\ \E c \in Puts : c.existed /\ c.resp = "failed" /\ ~c.sentSha /\ ~c.accepted
    /\ \E c \in Puts : c.existed /\ c.sentSha /\ c.accepted

\* C5: a Strategy A run whose build output is that of the successful run just
\* before it, with no external command failing, finds nothing to commit, makes
\* no push of any kind and does not fail.
C5_SecondRunIsNoOp ==
    (driver = "cli" /\ repeat /\ ~envFailed) =>
        /\ pushes = 0
        /\ pc \notin {"fallback", "push", "except", "raised"}
        /\ stage # "Failed"

C5_Witness ==
    /\ driver = "cli" /\ repeat /\ ~envFailed
    /\ pc = "returned" /\ stage = "Done"
    /\ "index.html" \in DOMAIN dist.files
    /\ scratch = Missing

IsPrefix(a, b) == Len(a) <= Len(b) /\ a = SubSeq(b, 1, Len(a))

StageList == <<"Fetching", "Rendering", "Building", "Publishing">>

StageLine(i) == StageStatus(driver, (StageList \o <<"Done">>)[i])

\* the place of a line's first occurrence in the log, 0 when it is not there
FirstAt(line) ==
    IF \E i \in 1..Len(log) : log[i] = line
    THEN CHOOSE i \in 1..Len(log) : log[i] = line /\ \A k \in 1..(i - 1) : log[k] # line
    ELSE 0

\* C6: in a run of AstroDeployer.run or HugoDeployer.run the stages begin in the
\* order Fetching, Rendering, Building, Publishing, each after the one before it
\* returned, none skipped or begun twice; the stage lines reach the observer in
\* that order, each before its stage's work begins, DONE after all four.
C6_StagesInOrder ==
    driver \in {"cli", "gui"} =>
        /\ IsPrefix(started, StageList)
        /\ IsPrefix(completed, StageList)
        /\ Len(completed) <= Len(started)
        /\ Len(started) <= Len(completed) + 1
        /\ \A i \in 1..Len(started) : FirstAt(StageLine(i)) > 0
        /\ \A i \in 1..5 :
              FirstAt(StageLine(i)) > 0 =>
                  /\ Len(completed) >= i - 1
                  /\ \A k \in 1..(i - 1) :
                        FirstAt(StageLine(k)) > 0
                        /\ FirstAt(StageLine(k)) < FirstAt(StageLine(i))

C6_Witness ==
    /\ driver = "gui" /\ pc = "returned"
    /\ completed = StageList
    /\ FirstAt(StageLine(5)) = Len(log)

DoneLine == Status("DONE! Google News live on your domain!")

\* C7: when a stage raises, the next step of run() reports that error, enters
\* Failed and re-raises the same error; from Failed no stage begins or is
\* begun again, the failed stage is the last one begun, and DONE is not in
\* the log.
C7_FailureIsTerminal ==
    /\ [](stage = "Failed" =>
            /\ err # NoErr
            /\ Len(started) = Len(completed) + 1
            /\ \A i \in 1..Len(log) : log[i] # DoneLine
            /\ \E i \in 1..Len(log) : log[i] = ErrorLine(err)
            /\ pc \in {"raised", "finished"})
    /\ [][ /\ pc = "except" =>
                /\ pc' = "raised" /\ stage' = "Failed"
                /\ err # NoErr /\ err' = err
                /\ started' = started /\ completed' = completed
                /\ log' = Append(log, ErrorLine(err))
           /\ stage = "Failed" =>
                \/ stage' = "Idle"
                \/ stage' = "Failed" /\ started' = started /\ err' = err ]_vars

C7_Witness ==
    /\ driver = "cli" /\ pc = "raised" /\ stage = "Failed"
    /\ started = <<"Fetching", "Rendering", "Building", "Publishing">>
    /\ completed = <<"Fetching", "Rendering", "Building">>

ErrorLines == {i \in 1..Len(log) : log[i][1] = "Error:"}

\* C8: when a failing run has ended in its driver (run() raised into deploy.py
\* main, or the Worker emitted finished), the observer has received exactly
\* one "Error:" line.
C8_ExactlyOneErrorLine ==
    (stage = "Failed" /\ pc \in {"raised", "finished"}) => Cardinality(ErrorLines) = 1

NameOf(item) == FileName(Slug(Title(item)))

Names(items) == {NameOf(items[i]) : i \in 1..Len(items)}

DistinctSlugs(items) ==
    \A i, j \in 1..Len(items) : i # j => NameOf(items[i]) # NameOf(items[j])

\* the render step of this run has returned
Rendered == Len(completed) >= 2

\* the directory the renderer of this driver fills for its generator
TargetDir ==
    CASE driver = "cli" -> astroBlog
      [] driver = "dev" -> devPosts
      [] OTHER -> contentPosts

ContentFor(item) ==
    CASE driver = "cli" -> AstroContent(item)
      [] driver = "dev" -> DevContent(item)
      [] OTHER -> HugoContent(item)

LastWith(items, n) ==
    items[CHOOSE i \in 1..Len(items) :
             NameOf(items[i]) = n /\ \A k \in (i + 1)..Len(items) : NameOf(items[k]) # n]

FirstWith(items, n) ==
    items[CHOOSE i \in 1..Len(items) :
             NameOf(items[i]) = n /\ \A k \in 1..(i - 1) : NameOf(items[k]) # n]

Begun == {started[i] : i \in 1..Len(started)}

\* the retrieval of the feed failed: feedparser.parse raised, or it returned
\* a result flagged as not being a well-formed feed
FetchFailed == bozo \/ err = PyError("feedparser.parse failed")

\* C11: when the feed retrieval fails or the response is not a feed, the run
\* aborts in Fetching: Rendering, Building and Publishing never begin, no
\* operation on the remote is made and the branch is as it was
C11_FetchFailureAborts ==
    FetchFailed =>
        /\ stage \in {"Fetching", "Failed"}
        /\ Begun \subseteq {"Fetching"}
        /\ remoteOps = {}
        /\ ghPages = ghBefore

\* the build command of this run reported success and left no output directory
BuiltWithoutOutput ==
    /\ \E i \in 1..Len(completed) : completed[i] = "Building"
    /\ \/ driver = "cli" /\ ~dist.exists
       \/ driver = "gui" /\ ~public.exists

MissingOutputError ==
    err \in {PyError("Astro distribution directory not found. Build may have failed."),
             PyError("Hugo public directory not found. Build may have failed.")}

\* C12: when the build reports success without an output directory, the run
\* does not enter Publishing, and no operation on the remote has been made
\* when the missing-output error is raised
C12_MissingOutputFailsInBuilding ==
    (BuiltWithoutOutput \/ MissingOutputError) =>
        /\ "Publishing" \notin Begun
        /\ remoteOps = {}

Marker == <<".", ".", ".">>

\* the Astro renderer of this run has returned
AstroRendered == Rendered /\ driver = "cli"

\* the description field of the file the Astro renderer wrote for an item
DescriptionOf(item) == astroBlog[NameOf(item)][3]

\* C13 as stated: with s the summary with its tags stripped, the description
\* is 155 characters followed by "..." when s is longer than 155, and s
\* itself followed by "..." otherwise
C13_TruncatedOrInFull ==
    AstroRendered =>
        \A i \in 1..Len(news_items) :
            LET s == clean_html(Summary(news_items[i]))
                d == DescriptionOf(news_items[i])
            IN IF Len(s) > DescLen
               THEN Len(d) = DescLen + 3 /\ SubSeq(d, DescLen + 1, DescLen + 3) = Marker
               ELSE d = s \o Marker

\* C13 as amended: with s the summary with its tags stripped, each double
\* quote preceded by a backslash and the surrounding whitespace removed, the
\* description is the first 155 characters of s followed by "..." when s is
\* longer than 155, and s itself followed by "..." otherwise
C13_EscapedTrimmedPrefix ==
    AstroRendered =>
        \A i \in 1..Len(news_items) :
            LET s == Strip(Replace(clean_html(Summary(news_items[i])), "\"", <<"\\", "\"">>))
                d == DescriptionOf(news_items[i])
            IN IF Len(s) > DescLen
               THEN /\ Len(d) = DescLen + 3
                    /\ SubSeq(d, 1, DescLen) = SubSeq(s, 1, DescLen)
                    /\ SubSeq(d, DescLen + 1, DescLen + 3) = Marker
               ELSE d = s \o Marker

C13_Witness ==
    /\ AstroRendered
    /\ \E i \in 1..Len(news_items) :
          /\ Len(clean_html(Summary(news_items[i]))) > DescLen
          /\ clean_html(Summary(news_items[i])) # Summary(news_items[i])
          /\ Len(DescriptionOf(news_items[i])) = DescLen + 3

SlugChars == {LowerCase[i] : i \in 1..26} \cup Digits \cup {"-"}

\* C14: the slug of every rendered title, which names the file written for
\* it, holds only lowercase letters, digits and hyphens, is at most 60
\* characters long, and is its own slug
C14_SlugWellFormedAndIdempotent ==
    Rendered =>
        \A i \in 1..Len(news_items) :
            LET slug == Slug(Title(news_items[i]))
            IN /\ FileName(slug) \in DOMAIN TargetDir
               /\ \A k \in 1..Len(slug) : slug[k] \in SlugChars
               /\ Len(slug) <= SlugLen
               /\ Slug(slug) = slug

\* deploy_to_github of Strategy A has returned or raised in this run
GitPublishOver ==
    /\ driver = "cli" /\ "Publishing" \in Begun
    /\ \/ pc \in {"except", "raised", "returned"}
       \/ stage = "Done"

\* C15: when Strategy A's deploy_to_github has returned or raised, whatever
\* the step, the scratch directory temp_gh_pages_deploy does not exist
C15_ScratchDiscarded == GitPublishOver => ~scratch.exists

\* C16: GUI driver.  From start_worker to on_worker_finished the button is
\* disabled, so a Worker is started only when none is running; the handler
\* only starts the run, whose stages are steps of the Worker; finished is
\* emitted once, at the end of Worker.run, after success and after failure;
\* the run ends with the button enabled again, and every run ends
C16_OneGuiRunAtATime ==
    /\ [](driver = "gui" =>
            /\ ~btnEnabled
            /\ finishedCount = (IF pc = "finished" THEN 1 ELSE 0))
    /\ [][ /\ (driver' = "gui" /\ driver # "gui") =>
                /\ pc = "idle" /\ btnEnabled /\ ~btnEnabled'
                /\ stage' = "Fetching" /\ started' = <<>> /\ log' = <<>>
           /\ (driver = "gui" /\ driver' = "gui") =>
                ~(pc' = "status" /\ stage' = "Fetching" /\ pc # "status")
           /\ (driver = "gui" /\ driver' # "gui") =>
                /\ pc = "finished" /\ finishedCount = 1
                /\ stage \in {"Done", "Failed"}
                /\ btnEnabled' /\ driver' = "none" ]_vars
    /\ (driver = "gui") ~> (driver = "none" /\ btnEnabled)

C16_Witness ==
    /\ driver = "gui" /\ pc = "finished" /\ stage = "Failed"
    /\ finishedCount = 1 /\ ~btnEnabled

====
